---- MODULE Spec2Model ----
(***************************************************************************)
(* Model of the analytics dashboard:                                       *)
(*   src/app/dashboard/page.tsx      parseDateTime, getSortTimestamp,      *)
(*                                   filteredData/compareItems, handleSort,*)
(*                                   getAppFromEndpoint, user filter       *)
(*   src/app/api/get-details/route.ts  the gateway GET handler             *)
(*                                                                         *)
(* Strings are sequences of one-character strings, so that slicing,        *)
(* prefix tests, splitting and pattern matching are computed.  A JS number *)
(* is a record [k, v]: k is "num" (v its value), "nan", "-inf" or "+inf".  *)
(* Instants are milliseconds since the epoch, as Date.parse returns them;  *)
(* the dates of the model lie in January 1970 so that they fit TLC's       *)
(* integers.                                                               *)
(***************************************************************************)
EXTENDS Integers, Sequences, FiniteSets, TLC

VARIABLES
    tz,             \* environment: offset of local time from UTC, in minutes
    tempDate,       \* page.tsx:146  today's date, YYYY-MM-DD
    pDate,          \* parseDateTime: argument dateStr
    pTime,          \* parseDateTime: argument timeStr  (<<>> = undefined)
    pFallback,      \* parseDateTime: argument fallbackDate (<<>> = undefined)
    pResult,        \* parseDateTime: returned number
    pc,             \* which call has run last
    data,           \* page.tsx:114  the loaded records
    loading,        \* page.tsx:115
    error,          \* page.tsx:116  "null" or the message
    selectedUsers,  \* page.tsx:122  array of user names
    sortConfig,     \* page.tsx:138  [key, direction]
    filteredData,   \* page.tsx:205  the displayed list (useMemo)
    routeToAppMap,  \* page.tsx:4    the route table, in iteration order
    rEndpoint,      \* getAppFromEndpoint: argument endpoint
    rApp,           \* getAppFromEndpoint: returned string
    envApiUrl,      \* route.ts:7    process.env.API_URL (<<>> = unset)
    envPort,        \* route.ts:7    process.env.PORT    (<<>> = unset)
    gPc,            \* GET: "idle", "fetch" (route.ts:44), "json" (route.ts:54)
    gUrl,           \* GET: the url the upstream request was issued to
    gCalls,         \* GET: invocations so far
    gFetches,       \* GET: upstream requests issued so far
    gResponses,     \* GET: responses returned so far, in order
    gUpstream,      \* what the upstream did on each request, in order
    gThrown,        \* GET: invocations that ended in a rejection
    fetches,        \* page.tsx:152  requests to /api/get-details issued so far
    fBody,          \* page.tsx:160  the JSON body the request was answered with
    expandedRows,   \* page.tsx:135  set of expanded row indices
    qParams,        \* a query_params mapping, as its entries in key order
    qRows,          \* flattenParamsToRows(qParams)
    qCount,         \* countTotalRows(qParams)
    qNeeds,         \* rowNeedsExpansion of a record with qParams
    fItem,          \* formatDateTime: argument item
    fResult         \* formatDateTime: returned string

parseVars == <<pDate, pTime, pFallback, pResult>>

dashVars == <<data, loading, error, selectedUsers, sortConfig, filteredData>>

routeVars == <<routeToAppMap, rEndpoint, rApp>>

gateVars == <<envApiUrl, envPort, gPc, gUrl, gCalls, gFetches, gResponses, gUpstream, gThrown>>

fetchVars == <<fetches, fBody>>

expandVars == <<expandedRows>>

paramVars == <<qParams, qRows, qCount, qNeeds>>

formatVars == <<fItem, fResult>>

extraVars == <<fetchVars, expandVars, paramVars, formatVars>>

vars == <<tz, tempDate, pc, parseVars, dashVars, routeVars, gateVars, extraVars>>

----------------------------------------------------------------------------
(* JS numbers *)

Num(n) == [k |-> "num", v |-> n]
NaN == [k |-> "nan", v |-> 0]
NEGATIVE_INFINITY == [k |-> "-inf", v |-> 0]
POSITIVE_INFINITY == [k |-> "+inf", v |-> 0]

\* a validity test that lets every parse result through
NeverNaN(x) == FALSE

IsNaN(x) == x.k = "nan"
IsFinite(x) == x.k = "num"

\* a - b on JS numbers (IEEE 754: inf - inf of the same sign is NaN)
Minus(a, b) ==
    IF IsNaN(a) \/ IsNaN(b) THEN NaN
    ELSE IF IsFinite(a) /\ IsFinite(b) THEN Num(a.v - b.v)
    ELSE IF IsFinite(a) THEN (IF b.k = "-inf" THEN POSITIVE_INFINITY ELSE NEGATIVE_INFINITY)
    ELSE IF IsFinite(b) THEN a
    ELSE IF a.k = b.k THEN NaN
    ELSE a

\* a < b on JS numbers (false when either is NaN)
Less(a, b) ==
    IF IsNaN(a) \/ IsNaN(b) THEN FALSE
    ELSE IF a.k = "-inf" THEN b.k # "-inf"
    ELSE IF a.k = "+inf" THEN FALSE
    ELSE IF b.k = "-inf" THEN FALSE
    ELSE IF b.k = "+inf" THEN TRUE
    ELSE a.v < b.v

LessEq(a, b) == Less(a, b) \/ (~IsNaN(a) /\ a = b)

----------------------------------------------------------------------------
(* JS strings *)

Digits == <<"0", "1", "2", "3", "4", "5", "6", "7", "8", "9">>

DigitChars == {Digits[i] : i \in 1..Len(Digits)}

DigitValues == [c \in DigitChars |-> (CHOOSE i \in 1..Len(Digits) : Digits[i] = c) - 1]

\* /\d/
IsDigit(c) == c \in DigitChars

DigitVal(c) == DigitValues[c]

\* s.includes(c) for a one-character c
Includes(s, c) == \E i \in 1..Len(s) : s[i] = c

\* s.slice(0, n)
Slice0(s, n) == SubSeq(s, 1, IF Len(s) < n THEN Len(s) ELSE n)

\* s.startsWith(p)
StartsWith(s, p) == Len(p) <= Len(s) /\ SubSeq(s, 1, Len(p)) = p

\* s.replace(c, r) for one-character strings: the first occurrence only
ReplaceFirst(s, c, r) ==
    IF ~Includes(s, c) THEN s
    ELSE LET i == CHOOSE i \in 1..Len(s) : s[i] = c /\ \A j \in 1..(i - 1) : s[j] # c
         IN [s EXCEPT ![i] = r]

\* s.match(/^.../) for a pattern of literals and \d, written "#"
MatchesPrefix(s, pat) ==
    /\ Len(s) >= Len(pat)
    /\ \A i \in 1..Len(pat) : IF pat[i] = "#" THEN IsDigit(s[i]) ELSE s[i] = pat[i]

\* /^\d{4}-\d{2}-\d{2}/
DatePattern == <<"#", "#", "#", "#", "-", "#", "#", "-", "#", "#">>

\* /^\d{4}-\d{2}-\d{2} \d{2}:\d{2}:\d{2}/
DateTimePattern == DatePattern \o <<" ", "#", "#", ":", "#", "#", ":", "#", "#">>

----------------------------------------------------------------------------
(* Date.parse, on the ECMAScript date-time string format                   *)
(*   YYYY-MM-DD [ T HH:mm [:ss[.sss]] [ Z | +HH:mm | -HH:mm ] ]            *)
(* A date-only string is UTC midnight; a date-time without zone is local   *)
(* time, tz minutes ahead of UTC.  Any other string is NaN.                *)

Num2(s, i) == DigitVal(s[i]) * 10 + DigitVal(s[i + 1])

Num4(s, i) == Num2(s, i) * 100 + Num2(s, i + 2)

IsLeap(y) == (y % 4 = 0 /\ y % 100 # 0) \/ y % 400 = 0

DaysInMonth(y, m) ==
    IF m = 2 THEN (IF IsLeap(y) THEN 29 ELSE 28)
    ELSE IF m \in {4, 6, 9, 11} THEN 30 ELSE 31

\* days from 1970-01-01 to y-m-d in the proleptic Gregorian calendar
DaysFromCivil(y, m, d) ==
    LET y2 == IF m <= 2 THEN y - 1 ELSE y
        era == y2 \div 400
        yoe == y2 - era * 400
        mp == (m + 9) % 12
        doy == (153 * mp + 2) \div 5 + d - 1
        doe == yoe * 365 + yoe \div 4 - yoe \div 100 + doy
    IN era * 146097 + doe - 719468

TimePattern == <<"T", "#", "#", ":", "#", "#">>

SecPattern == <<":", "#", "#">>

MsPattern == <<".", "#", "#", "#">>

ZonePattern == <<"#", "#", ":", "#", "#">>

ZoneOk(z) ==
    \/ z = <<>>
    \/ z = <<"Z">>
    \/ Len(z) = 6 /\ z[1] \in {"+", "-"} /\ MatchesPrefix(SubSeq(z, 2, 6), ZonePattern)

\* minutes ahead of UTC of the wall clock a zone suffix denotes
ZoneOffset(z) ==
    IF z = <<>> THEN tz
    ELSE IF z = <<"Z">> THEN 0
    ELSE (IF z[1] = "-" THEN -1 ELSE 1) * (Num2(z, 2) * 60 + Num2(z, 5))

DateParse(s) ==
    IF ~MatchesPrefix(s, DatePattern) THEN NaN
    ELSE
      LET y == Num4(s, 1)
          m == Num2(s, 6)
          d == Num2(s, 9)
          rest == SubSeq(s, 11, Len(s))
          dayMs == DaysFromCivil(y, m, d) * 86400000
      IN IF ~(m \in 1..12 /\ d \in 1..DaysInMonth(y, m)) THEN NaN
         ELSE IF rest = <<>> THEN Num(dayMs)
         ELSE IF ~MatchesPrefix(rest, TimePattern) THEN NaN
         ELSE
           LET h == Num2(rest, 2)
               mi == Num2(rest, 5)
               tail == SubSeq(rest, 7, Len(rest))
               hasSec == MatchesPrefix(tail, SecPattern)
               sec == IF hasSec THEN Num2(tail, 2) ELSE 0
               afterSec == IF hasSec THEN SubSeq(tail, 4, Len(tail)) ELSE tail
               hasMs == hasSec /\ MatchesPrefix(afterSec, MsPattern)
               zone == IF hasMs THEN SubSeq(afterSec, 5, Len(afterSec)) ELSE afterSec
               timeOk == /\ mi <= 59
                         /\ sec <= 59
                         /\ (h <= 23 \/ (h = 24 /\ mi = 0 /\ sec = 0))
               ms == IF hasMs THEN DigitVal(afterSec[2]) * 100 + Num2(afterSec, 3) ELSE 0
           IN IF ~(timeOk /\ ZoneOk(zone)) THEN NaN
              ELSE Num(dayMs + h * 3600000 + mi * 60000 + sec * 1000 + ms
                       - ZoneOffset(zone) * 60000)

----------------------------------------------------------------------------
(* page.tsx:48-107  parseDateTime *)

\* parseDateTime with the bare-date rule tried before the date + time rule
parseDateTimeDateFirst(dateStr, timeStr, fallbackDate) ==
    LET r1 == DateParse(ReplaceFirst(dateStr, " ", "T"))
        r2 == DateParse(dateStr)
        r3 == DateParse(Slice0(dateStr, 10) \o <<"T">> \o timeStr)
        r4 == DateParse(Slice0(dateStr, 10))
        r5 == DateParse(fallbackDate \o <<"T">> \o timeStr)
    IN IF /\ dateStr # <<>>
          /\ Includes(dateStr, " ")
          /\ MatchesPrefix(dateStr, DateTimePattern)
          /\ ~IsNaN(r1)
       THEN r1
       ELSE IF dateStr # <<>> /\ Includes(dateStr, "T") /\ ~IsNaN(r2)
       THEN r2
       ELSE IF dateStr # <<>> /\ MatchesPrefix(dateStr, DatePattern) /\ ~IsNaN(r4)
       THEN r4
       ELSE IF dateStr # <<>> /\ timeStr # <<>> /\ ~IsNaN(r3)
       THEN r3
       ELSE IF timeStr # <<>> /\ fallbackDate # <<>> /\ ~IsNaN(r5)
       THEN r5
       ELSE NEGATIVE_INFINITY

parseDateTime(dateStr, timeStr, fallbackDate) ==
    LET r1 == DateParse(ReplaceFirst(dateStr, " ", "T"))
        r2 == DateParse(dateStr)
        r3 == DateParse(Slice0(dateStr, 10) \o <<"T">> \o timeStr)
        r4 == DateParse(Slice0(dateStr, 10))
        r5 == DateParse(fallbackDate \o <<"T">> \o timeStr)
        r6 == DateParse(Slice0(dateStr, 10) \o <<"T", "0", "0", ":", "0", "0", ":", "0", "0">>)
    IN IF /\ dateStr # <<>>
          /\ Includes(dateStr, " ")
          /\ MatchesPrefix(dateStr, DateTimePattern)
          /\ ~IsNaN(r1)
       THEN r1
       ELSE IF dateStr # <<>> /\ Includes(dateStr, "T") /\ ~IsNaN(r2)
       THEN r2
       ELSE IF dateStr # <<>> /\ timeStr # <<>> /\ ~IsNaN(r3)
       THEN r3
       ELSE IF dateStr # <<>> /\ MatchesPrefix(dateStr, DatePattern) /\ ~IsNaN(r4)
       THEN r4
       ELSE IF timeStr # <<>> /\ fallbackDate # <<>> /\ ~IsNaN(r5)
       THEN r5
       ELSE IF dateStr # <<>> /\ MatchesPrefix(dateStr, DatePattern) /\ ~IsNaN(r6)
       THEN r6
       ELSE NEGATIVE_INFINITY

\* page.tsx:109-111  getSortTimestamp: item.date || '' and item.time
getSortTimestamp(item, fallbackDate) == parseDateTime(item.date, item.time, fallbackDate)

----------------------------------------------------------------------------
(* Inputs *)

D2(n) == <<Digits[(n \div 10) + 1], Digits[(n % 10) + 1]>>

YMD(m, d) == <<"1", "9", "7", "0", "-">> \o D2(m) \o <<"-">> \o D2(d)

HM(h, mi) == D2(h) \o <<":">> \o D2(mi)

HMS(h, mi, sec) == HM(h, mi) \o <<":">> \o D2(sec)

\* the local zones the page runs in: UTC, UTC+5:30, UTC-5
TimeZones == {0, 330, -300}

BareDate == YMD(1, 3)
SpaceDateTime == YMD(1, 3) \o <<" ">> \o HMS(3, 0, 0)
IsoLocal == YMD(1, 3) \o <<"T">> \o HMS(6, 0, 0)
IsoZulu == YMD(1, 4) \o <<"T">> \o HMS(1, 0, 0) \o <<"Z">>
IsoOffset == YMD(1, 4) \o <<"T">> \o HM(9, 0) \o <<"+", "0", "5", ":", "3", "0">>
BadMonthDateTime == YMD(13, 2) \o <<" ">> \o HMS(3, 0, 0)
BadHourDateTime == YMD(1, 2) \o <<" ">> \o HMS(25, 0, 0)
ShortDateTime == YMD(1, 6) \o <<" ">> \o HM(7, 30)
NoDateT == <<"T", "B", "D">>
NoDate == <<"n", "/", "a">>

DateStrs == {<<>>, BareDate, SpaceDateTime, IsoLocal, IsoZulu, IsoOffset,
             BadMonthDateTime, BadHourDateTime, ShortDateTime, NoDateT, NoDate}

TimeStrs == {<<>>, HM(10, 30), HMS(23, 59, 59), <<"-", "-">>}

FallbackDates == {<<>>, YMD(1, 5)}


----------------------------------------------------------------------------
(* page.tsx:113-141  DashboardPage state after construction *)

InitialSortConfig == [key |-> "datetime", direction |-> "desc"]

DashIdle ==
    /\ data = <<>>
    /\ loading = TRUE
    /\ error = "null"
    /\ selectedUsers = <<>>
    /\ sortConfig = InitialSortConfig
    /\ filteredData = <<>>

ParseIdle ==
    /\ pDate = <<>>
    /\ pTime = <<>>
    /\ pFallback = <<>>
    /\ pResult = NaN

RouteIdle ==
    /\ routeToAppMap = <<>>
    /\ rEndpoint = <<>>
    /\ rApp = ""

NoBody == [kind |-> "none", value |-> <<>>]

NoItem == [user |-> "", date |-> <<>>, time |-> <<>>]

ExpandIdle == expandedRows = {}

ParamIdle ==
    /\ qParams = [present |-> FALSE, entries |-> <<>>]
    /\ qRows = <<>>
    /\ qCount = 0
    /\ qNeeds = FALSE

FormatIdle ==
    /\ fItem = NoItem
    /\ fResult = <<>>

ExtraIdle ==
    /\ fetches = 0
    /\ fBody = NoBody
    /\ ExpandIdle
    /\ ParamIdle
    /\ FormatIdle

GateIdle ==
    /\ envApiUrl = <<>>
    /\ envPort = <<>>
    /\ gPc = "idle"
    /\ gUrl = <<>>
    /\ gCalls = 0
    /\ gFetches = 0
    /\ gResponses = <<>>
    /\ gUpstream = <<>>
    /\ gThrown = 0

----------------------------------------------------------------------------
(* A call of parseDateTime on each input *)

InitParse ==
    /\ tz \in TimeZones
    /\ tempDate = YMD(1, 5)
    /\ pDate = <<>>
    /\ pTime = <<>>
    /\ pFallback = <<>>
    /\ pResult = NaN
    /\ pc = "init"
    /\ DashIdle
    /\ RouteIdle
    /\ GateIdle
    /\ ExtraIdle

CallParseDateTime ==
    \E d \in DateStrs, t \in TimeStrs, f \in FallbackDates :
        /\ pDate' = d
        /\ pTime' = t
        /\ pFallback' = f
        /\ pResult' = parseDateTime(d, t, f)
        /\ pc' = "parsed"
        /\ UNCHANGED <<tz, tempDate, dashVars, routeVars, gateVars, extraVars>>

NextParse == CallParseDateTime

SpecParse == InitParse /\ [][NextParse]_vars


----------------------------------------------------------------------------
(* page.tsx:199-234  uniqueUsers and filteredData *)

\* the user names of the feed, in localeCompare order
AllUsers == <<"alice", "bob">>

RECURSIVE SelectSeq2(_, _)
\* seq.filter(x => x \in keep)
SelectSeq2(seq, keep) ==
    IF seq = <<>> THEN <<>>
    ELSE (IF Head(seq) \in keep THEN <<Head(seq)>> ELSE <<>>) \o SelectSeq2(Tail(seq), keep)

Range(seq) == {seq[i] : i \in DOMAIN seq}

\* page.tsx:199-203  the distinct users of data, sorted
uniqueUsers(d) == SelectSeq2(AllUsers, {d[i].user : i \in DOMAIN d})

\* a filter that lets every record through, whatever the selection
FilterItemsAll(d, sel) == d

\* page.tsx:206-212  data.filter(...)
RECURSIVE FilterItems(_, _)
FilterItems(d, sel) ==
    IF d = <<>> THEN <<>>
    ELSE LET item == Head(d)
             matchesSelectedUsers == IF Len(sel) > 0 THEN item.user \in Range(sel) ELSE TRUE
             matchesDate == TRUE
         IN (IF matchesSelectedUsers /\ matchesDate THEN <<item>> ELSE <<>>)
            \o FilterItems(Tail(d), sel)

\* compareItems deaf to the direction: always ascending
compareItemsAscOnly(a, b, cfg) ==
    Minus(getSortTimestamp(a, tempDate), getSortTimestamp(b, tempDate))

\* compareItems with the two directions exchanged
compareItemsSwapped(a, b, cfg) ==
    IF cfg.direction = "desc"
    THEN Minus(getSortTimestamp(a, tempDate), getSortTimestamp(b, tempDate))
    ELSE Minus(getSortTimestamp(b, tempDate), getSortTimestamp(a, tempDate))

\* page.tsx:214-231  compareItems
compareItems(a, b, cfg) ==
    IF cfg.key = "datetime"
    THEN LET aValue == getSortTimestamp(a, tempDate)
             bValue == getSortTimestamp(b, tempDate)
         IN IF cfg.direction = "desc" THEN Minus(bValue, aValue) ELSE Minus(aValue, bValue)
    ELSE Num(0)

\* a sort that reads a NaN comparator result as "greater"
PositiveOrNaN(v) == v.k = "+inf" \/ v.k = "nan" \/ (v.k = "num" /\ v.v > 0)

\* Array.prototype.sort reads a comparator result v as: v > 0, b before a;
\* NaN counts as 0
Positive(v) == v.k = "+inf" \/ (v.k = "num" /\ v.v > 0)

\* one step of a stable insertion: x goes after the last element that does
\* not compare greater than it
RECURSIVE InsertItem(_, _, _)
InsertItem(sorted, x, cfg) ==
    IF sorted = <<>> THEN <<x>>
    ELSE LET last == sorted[Len(sorted)]
         IN IF Positive(compareItems(last, x, cfg))
            THEN InsertItem(SubSeq(sorted, 1, Len(sorted) - 1), x, cfg) \o <<last>>
            ELSE sorted \o <<x>>

\* page.tsx:233  filtered.slice().sort(compareItems): a stable sort
RECURSIVE SortItems(_, _)
SortItems(seq, cfg) ==
    IF seq = <<>> THEN <<>>
    ELSE InsertItem(SortItems(SubSeq(seq, 1, Len(seq) - 1), cfg), seq[Len(seq)], cfg)

\* page.tsx:205-234  the useMemo that yields filteredData
ComputeFilteredData(d, sel, cfg) == SortItems(FilterItems(d, sel), cfg)

----------------------------------------------------------------------------
(* The records of the feed *)

Item(u, d, t) == [user |-> u, date |-> d, time |-> t]

FeedItems ==
    { Item("alice", SpaceDateTime, <<>>),
      Item("bob", BareDate, <<>>),
      Item("alice", IsoZulu, <<>>),
      Item("bob", YMD(1, 2), HM(10, 30)),
      Item("bob", <<>>, <<>>),
      Item("alice", NoDate, <<>>) }

MaxData == 3

Feeds == UNION {[1..n -> FeedItems] : n \in 0..MaxData}

----------------------------------------------------------------------------
(* The dashboard page *)

InitDash ==
    /\ tz \in TimeZones
    /\ tempDate = YMD(1, 5)
    /\ pc = "fetching"
    /\ ParseIdle
    /\ DashIdle
    /\ RouteIdle
    /\ GateIdle
    /\ fetches = 1
    /\ fBody = NoBody
    /\ ExpandIdle
    /\ ParamIdle
    /\ FormatIdle

\* page.tsx:160-163,168  the fetch resolves with an array body
FetchArray ==
    /\ pc = "fetching"
    /\ \E jsonData \in Feeds :
        /\ fBody' = [kind |-> "array", value |-> jsonData]
        /\ data' = jsonData
        /\ filteredData' = ComputeFilteredData(jsonData, selectedUsers, sortConfig)
    /\ error' = "null"
    /\ loading' = FALSE
    /\ pc' = "settled"
    /\ UNCHANGED <<tz, tempDate, parseVars, routeVars, gateVars, expandVars, paramVars, formatVars,
                   fetches, selectedUsers, sortConfig>>

\* page.tsx:161  a body that is not an array is wrapped
FetchObject ==
    /\ pc = "fetching"
    /\ \E jsonData \in FeedItems :
        /\ fBody' = [kind |-> "object", value |-> jsonData]
        /\ data' = <<jsonData>>
        /\ filteredData' = ComputeFilteredData(<<jsonData>>, selectedUsers, sortConfig)
    /\ error' = "null"
    /\ loading' = FALSE
    /\ pc' = "settled"
    /\ UNCHANGED <<tz, tempDate, parseVars, routeVars, gateVars, expandVars, paramVars, formatVars,
                   fetches, selectedUsers, sortConfig>>

\* a failure that is caught and not reported
FetchFailSilent ==
    /\ pc = "fetching"
    /\ error' = "null"
    /\ loading' = FALSE
    /\ pc' = "settled"
    /\ UNCHANGED <<tz, tempDate, parseVars, routeVars, gateVars, expandVars, paramVars, formatVars,
                   fetches, fBody, data, selectedUsers, sortConfig, filteredData>>

\* page.tsx:157-159,164-168  non-2xx, network error or malformed JSON
FetchFail ==
    /\ pc = "fetching"
    /\ error' \in {"Failed to fetch data", "Failed to fetch data: Internal Server Error"}
    /\ loading' = FALSE
    /\ pc' = "settled"
    /\ UNCHANGED <<tz, tempDate, parseVars, routeVars, gateVars, expandVars, paramVars, formatVars,
                   fetches, fBody, data, selectedUsers, sortConfig, filteredData>>

\* page.tsx:236-246
handleSort ==
    /\ sortConfig' = IF sortConfig.key = "datetime"
                     THEN [key |-> "datetime",
                           direction |-> IF sortConfig.direction = "asc" THEN "desc" ELSE "asc"]
                     ELSE [key |-> "datetime", direction |-> "asc"]
    /\ filteredData' = ComputeFilteredData(data, selectedUsers, sortConfig')
    /\ UNCHANGED <<tz, tempDate, pc, parseVars, routeVars, gateVars, extraVars, data, loading, error, selectedUsers>>

\* page.tsx:459-461  a checkbox of the user menu, one per unique user
toggleUser ==
    /\ \E u \in Range(uniqueUsers(data)) :
        selectedUsers' = IF u \in Range(selectedUsers)
                         THEN SelectSeq2(selectedUsers, Range(selectedUsers) \ {u})
                         ELSE selectedUsers \o <<u>>
    /\ filteredData' = ComputeFilteredData(data, selectedUsers', sortConfig)
    /\ UNCHANGED <<tz, tempDate, pc, parseVars, routeVars, gateVars, extraVars, data, loading, error, sortConfig>>

\* page.tsx:462
selectAllUsers ==
    /\ selectedUsers' = uniqueUsers(data)
    /\ filteredData' = ComputeFilteredData(data, selectedUsers', sortConfig)
    /\ UNCHANGED <<tz, tempDate, pc, parseVars, routeVars, gateVars, extraVars, data, loading, error, sortConfig>>

\* page.tsx:463
clearAllUsers ==
    /\ selectedUsers' = <<>>
    /\ filteredData' = ComputeFilteredData(data, selectedUsers', sortConfig)
    /\ UNCHANGED <<tz, tempDate, pc, parseVars, routeVars, gateVars, extraVars, data, loading, error, sortConfig>>

NextDash ==
    \/ FetchArray
    \/ FetchObject
    \/ FetchFail
    \/ handleSort
    \/ toggleUser
    \/ selectAllUsers
    \/ clearAllUsers

Spec == InitDash /\ [][NextDash]_vars

----------------------------------------------------------------------------
(* The page from its mount on: the effect that fetches, and its outcome *)

InitFetch ==
    /\ tz \in TimeZones
    /\ tempDate = YMD(1, 5)
    /\ pc = "mounted"
    /\ ParseIdle
    /\ DashIdle
    /\ RouteIdle
    /\ GateIdle
    /\ ExtraIdle

\* page.tsx:148-152,172-173  useEffect(..., []) runs fetchData once per mount
MountEffect ==
    /\ pc = "mounted"
    /\ loading' = TRUE
    /\ fetches' = fetches + 1
    /\ pc' = "fetching"
    /\ UNCHANGED <<tz, tempDate, parseVars, routeVars, gateVars, expandVars, paramVars,
                   formatVars, fBody, data, error, selectedUsers, sortConfig, filteredData>>

\* the request settles: fetch and response.json() resolve or reject
FetchSettles == FetchArray \/ FetchObject \/ FetchFail

NextFetch ==
    \/ MountEffect
    \/ FetchArray
    \/ FetchObject
    \/ FetchFail
    \/ handleSort

\* React runs the effect after the mount, and the request has an outcome
SpecFetch ==
    /\ InitFetch
    /\ [][NextFetch]_vars
    /\ WF_vars(MountEffect)
    /\ WF_vars(FetchSettles)


----------------------------------------------------------------------------
(* page.tsx:420-456  getAppFromEndpoint *)

\* the em dash of page.tsx:422 and 455, written in ASCII
DASH == "-"

\* s.split('/').filter(Boolean): the non-empty segments of s
RECURSIVE SplitFrom(_, _)
SplitFrom(s, cur) ==
    IF s = <<>> THEN (IF cur = <<>> THEN <<>> ELSE <<cur>>)
    ELSE IF Head(s) = "/"
         THEN (IF cur = <<>> THEN <<>> ELSE <<cur>>) \o SplitFrom(Tail(s), <<>>)
         ELSE SplitFrom(Tail(s), Append(cur, Head(s)))

SplitPath(s) == SplitFrom(s, <<>>)

\* routeToAppMap[endpoint]: the value of the own key endpoint, "" (falsy)
\* when the table has no such key
LookupRoute(table, endpoint) ==
    IF \E i \in DOMAIN table : table[i].route = endpoint
    THEN table[CHOOSE i \in DOMAIN table : table[i].route = endpoint].app
    ELSE ""

\* the segment test with the length test left out
RoutePartsMatchAnyLength(routeParts, endpointParts) ==
    \A i \in 1..Len(routeParts) :
        ~(/\ ~StartsWith(routeParts[i], <<"{">>)
          /\ (i > Len(endpointParts) \/ routeParts[i] # endpointParts[i]))

\* page.tsx:433-441  the length test and the inner loop over the segments
RoutePartsMatch(routeParts, endpointParts) ==
    /\ Len(routeParts) = Len(endpointParts)
    /\ \A i \in 1..Len(routeParts) :
          ~(~StartsWith(routeParts[i], <<"{">>) /\ routeParts[i] # endpointParts[i])

\* page.tsx:431-446  the loop over Object.entries(routeToAppMap); "" = no match
RECURSIVE SegmentStage(_, _)
SegmentStage(entries, endpointParts) ==
    IF entries = <<>> THEN ""
    ELSE IF RoutePartsMatch(SplitPath(Head(entries).route), endpointParts)
         THEN Head(entries).app
         ELSE SegmentStage(Tail(entries), endpointParts)

\* the prefix loop with a segment-boundary test
RECURSIVE PrefixStageBoundary(_, _)
PrefixStageBoundary(entries, endpoint) ==
    IF entries = <<>> THEN ""
    ELSE LET route == Head(entries).route
         IN IF /\ StartsWith(endpoint, route)
               /\ (Len(endpoint) = Len(route) \/ endpoint[Len(route) + 1] = "/")
            THEN Head(entries).app
            ELSE PrefixStageBoundary(Tail(entries), endpoint)

\* page.tsx:449-453  the loop over Object.entries(routeToAppMap); "" = no match
RECURSIVE PrefixStage(_, _)
PrefixStage(entries, endpoint) ==
    IF entries = <<>> THEN ""
    ELSE IF StartsWith(endpoint, Head(entries).route)
         THEN Head(entries).app
         ELSE PrefixStage(Tail(entries), endpoint)

\* getAppFromEndpoint with the prefix loop run before the segment loop
getAppFromEndpointPrefixFirst(endpoint, table) ==
    IF endpoint = <<>> THEN DASH
    ELSE IF LookupRoute(table, endpoint) # "" THEN LookupRoute(table, endpoint)
    ELSE IF PrefixStage(table, endpoint) # "" THEN PrefixStage(table, endpoint)
    ELSE IF SegmentStage(table, SplitPath(endpoint)) # ""
         THEN SegmentStage(table, SplitPath(endpoint))
    ELSE DASH

\* getAppFromEndpoint returning the word "unknown" when nothing matches
getAppFromEndpointUnknown(endpoint, table) ==
    IF endpoint = <<>> THEN DASH
    ELSE IF LookupRoute(table, endpoint) # "" THEN LookupRoute(table, endpoint)
    ELSE IF SegmentStage(table, SplitPath(endpoint)) # ""
         THEN SegmentStage(table, SplitPath(endpoint))
    ELSE IF PrefixStage(table, endpoint) # "" THEN PrefixStage(table, endpoint)
    ELSE "unknown"

\* page.tsx:421-456
getAppFromEndpoint(endpoint, table) ==
    IF endpoint = <<>> THEN DASH
    ELSE IF LookupRoute(table, endpoint) # "" THEN LookupRoute(table, endpoint)
    ELSE IF SegmentStage(table, SplitPath(endpoint)) # ""
         THEN SegmentStage(table, SplitPath(endpoint))
    ELSE IF PrefixStage(table, endpoint) # "" THEN PrefixStage(table, endpoint)
    ELSE DASH

----------------------------------------------------------------------------
(* The route table and the endpoints *)

RouteEsPs == <<"/", "e", "s", "/", "p", "s">>
RouteEs == <<"/", "e", "s">>
RouteDateRange == <<"/", "d", "a", "t", "e", "_", "r", "a", "n", "g", "e">>
RouteDateRangeId ==
    RouteDateRange \o <<"/", "{", "d", "a", "t", "e", "_", "r", "a", "n", "g", "e", "_", "i", "d", "}">>
RouteEsId == <<"/", "e", "s", "/", "{", "i", "d", "}">>
RouteOrgPs == <<"/", "{", "o", "r", "g", "}", "/", "p", "s">>

Entry(r, a) == [route |-> r, app |-> a]

\* the (pattern, application) pairs a table is made of
RouteEntries ==
    { Entry(RouteEsPs, "Estimation"),
      Entry(RouteEs, "Search"),
      Entry(RouteDateRange, "Ranges"),
      Entry(RouteDateRangeId, "Calendar"),
      Entry(RouteEsId, "Items"),
      Entry(RouteOrgPs, "Portal") }

MaxRoutes == 3

\* an object has each key once
RouteTables ==
    {t \in UNION {[1..n -> RouteEntries] : n \in 0..MaxRoutes} :
        \A i, j \in DOMAIN t : i # j => t[i] # t[j]}

EndpointDateRange123 == RouteDateRange \o <<"/", "1", "2", "3">>
EndpointEsPsExtra == RouteEsPs \o <<"/", "e", "x", "t", "r", "a">>
EndpointEstimate == <<"/", "e", "s", "t", "i", "m", "a", "t", "e">>
EndpointEsPsSlash == RouteEsPs \o <<"/">>
EndpointNoSlash == <<"e", "s">>
EndpointUnknown == <<"/", "h", "o", "m", "e">>

Endpoints ==
    {<<>>, EndpointDateRange123, EndpointEsPsExtra, EndpointEstimate, EndpointEsPsSlash,
     EndpointNoSlash, EndpointUnknown, RouteEsPs, RouteEs, RouteDateRange}

InitRoute ==
    /\ tz = 0
    /\ tempDate = YMD(1, 5)
    /\ pc = "init"
    /\ ParseIdle
    /\ DashIdle
    /\ GateIdle
    /\ ExtraIdle
    /\ routeToAppMap \in RouteTables
    /\ rEndpoint = <<>>
    /\ rApp = ""

\* a table cell is rendered: getAppFromEndpoint(item.endpoint)
CallGetAppFromEndpoint ==
    \E endpoint \in Endpoints :
        /\ rEndpoint' = endpoint
        /\ rApp' = getAppFromEndpoint(endpoint, routeToAppMap)
        /\ pc' = "resolved"
        /\ UNCHANGED <<tz, tempDate, parseVars, dashVars, gateVars, extraVars, routeToAppMap>>

NextRoute == CallGetAppFromEndpoint

SpecRoute == InitRoute /\ [][NextRoute]_vars

----------------------------------------------------------------------------
(* route.ts:3-67  the gateway GET handler *)

\* s.trim()
RECURSIVE TrimStart(_)
TrimStart(s) == IF s # <<>> /\ Head(s) = " " THEN TrimStart(Tail(s)) ELSE s

RECURSIVE TrimEnd(_)
TrimEnd(s) ==
    IF s # <<>> /\ s[Len(s)] = " " THEN TrimEnd(SubSeq(s, 1, Len(s) - 1)) ELSE s

Trim(s) == TrimEnd(TrimStart(s))

\* the value of the longest prefix of digits of s, read in base 10
RECURSIVE DigitsValue(_, _)
DigitsValue(s, acc) ==
    IF s # <<>> /\ IsDigit(Head(s)) THEN DigitsValue(Tail(s), acc * 10 + DigitVal(Head(s)))
    ELSE acc

\* parseInt(s, 10): leading blanks and a sign are allowed, then digits
ParseInt(s) ==
    LET t == TrimStart(s)
        signed == t # <<>> /\ Head(t) \in {"+", "-"}
        body == IF signed THEN Tail(t) ELSE t
    IN IF body = <<>> \/ ~IsDigit(Head(body)) THEN NaN
       ELSE Num((IF signed /\ Head(t) = "-" THEN -1 ELSE 1) * DigitsValue(body, 0))

\* n.toString() for an integer n
RECURSIVE NatToString(_)
NatToString(n) ==
    IF n < 10 THEN <<Digits[n + 1]>> ELSE NatToString(n \div 10) \o <<Digits[(n % 10) + 1]>>

IntToString(n) == IF n < 0 THEN <<"-">> \o NatToString(-n) ELSE NatToString(n)

Letters == {"a", "b", "c", "d", "e", "f", "g", "h", "i", "j", "k", "l", "m",
            "n", "o", "p", "q", "r", "s", "t", "u", "v", "w", "x", "y", "z"}

\* new URL(s) does not throw: s has a scheme, and a host when the scheme is
\* http or https
ValidUrl(s) ==
    /\ s # <<>>
    /\ s[1] \in Letters
    /\ \E c \in 2..Len(s) :
          /\ s[c] = ":"
          /\ \A i \in 1..(c - 1) : s[i] \in Letters \/ IsDigit(s[i]) \/ s[i] \in {"+", "-", "."}
          /\ LET scheme == SubSeq(s, 1, c - 1)
                 rest == SubSeq(s, c + 1, Len(s))
             IN scheme \in {<<"h", "t", "t", "p">>, <<"h", "t", "t", "p", "s">>}
                    => \E i \in 1..Len(rest) : rest[i] # "/"

Respond(status, kind, value) == [status |-> status, kind |-> kind, value |-> value]

Return(response) == [kind |-> "return", response |-> response, message |-> ""]

Throw(message) == [kind |-> "throw", response |-> Respond(0, "", ""), message |-> message]

\* a handler without the outer catch
NoCatch(completion) == completion

\* route.ts:4,60-66  the outer try/catch: what is thrown becomes a 500
TryCatch(completion) ==
    IF completion.kind = "throw"
    THEN Return(Respond(500, "error", completion.message))
    ELSE completion

\* route.ts:7  process.env.API_URL || process.env.PORT
ApiUrl == IF envApiUrl # <<>> THEN envApiUrl ELSE envPort

\* route.ts:13-41  the three checks; "" when they pass, else the error
CheckConfig(apiUrl) ==
    IF apiUrl = <<>> \/ Trim(apiUrl) = <<>> THEN "API_URL environment variable is not set"
    ELSE LET url == Trim(apiUrl)
             portNumber == ParseInt(url)
         IN IF ~IsNaN(portNumber) /\ url = IntToString(portNumber.v)
            THEN "PORT environment variable contains a port number"
            ELSE IF ~ValidUrl(url)
                 THEN "Invalid URL in API_URL environment variable"
                 ELSE ""

\* what a completion of the handler leaves behind
Complete(completion) ==
    /\ gPc' = "idle"
    /\ IF completion.kind = "return"
       THEN gResponses' = Append(gResponses, completion.response) /\ UNCHANGED gThrown
       ELSE gThrown' = gThrown + 1 /\ UNCHANGED gResponses

MaxCalls == 2

\* route.ts:3-46  a request arrives: the checks, then the upstream request
GetStart ==
    /\ gPc = "idle"
    /\ gCalls < MaxCalls
    /\ gCalls' = gCalls + 1
    /\ IF CheckConfig(ApiUrl) # ""
       THEN /\ Complete(TryCatch(Return(Respond(500, "error", CheckConfig(ApiUrl)))))
            /\ UNCHANGED <<gUrl, gFetches>>
       ELSE /\ gUrl' = Trim(ApiUrl)
            /\ gFetches' = gFetches + 1
            /\ gPc' = "fetch"
            /\ UNCHANGED <<gResponses, gThrown>>
    /\ UNCHANGED <<tz, tempDate, pc, parseVars, dashVars, routeVars, extraVars, envApiUrl, envPort, gUpstream>>

\* route.ts:44  fetch rejects: a network error
FetchRejects ==
    /\ gPc = "fetch"
    /\ gUpstream' = Append(gUpstream, "network")
    /\ Complete(TryCatch(Throw("fetch failed")))
    /\ UNCHANGED <<tz, tempDate, pc, parseVars, dashVars, routeVars, extraVars, envApiUrl, envPort,
                   gUrl, gCalls, gFetches>>

\* route.ts:50-52  a response that is not ok
FetchNotOk ==
    /\ gPc = "fetch"
    /\ \E status \in {"404", "500"} :
          /\ gUpstream' = Append(gUpstream, status)
          /\ Complete(TryCatch(Throw("Failed to fetch data: " \o status)))
    /\ UNCHANGED <<tz, tempDate, pc, parseVars, dashVars, routeVars, extraVars, envApiUrl, envPort,
                   gUrl, gCalls, gFetches>>

\* route.ts:44-50  a 2xx response: the body is read next
FetchOk ==
    /\ gPc = "fetch"
    /\ gPc' = "json"
    /\ UNCHANGED <<tz, tempDate, pc, parseVars, dashVars, routeVars, extraVars, envApiUrl, envPort,
                   gUrl, gCalls, gFetches, gResponses, gUpstream, gThrown>>

\* route.ts:54  response.json() rejects: the body is not JSON
JsonRejects ==
    /\ gPc = "json"
    /\ gUpstream' = Append(gUpstream, "malformed")
    /\ Complete(TryCatch(Throw("Unexpected token")))
    /\ UNCHANGED <<tz, tempDate, pc, parseVars, dashVars, routeVars, extraVars, envApiUrl, envPort,
                   gUrl, gCalls, gFetches>>

\* the bodies { "output": ... } the upstream sends: an array, one record
Outputs == {"records", "record"}

\* route.ts:54-59  the body is parsed and its output relayed
JsonOk ==
    /\ gPc = "json"
    /\ \E output \in Outputs :
          /\ gUpstream' = Append(gUpstream, output)
          /\ Complete(TryCatch(Return(Respond(200, "output", output))))
    /\ UNCHANGED <<tz, tempDate, pc, parseVars, dashVars, routeVars, extraVars, envApiUrl, envPort,
                   gUrl, gCalls, gFetches>>

UrlFeed == <<"h", "t", "t", "p", ":", "/", "/", "a", "p", "i", "/", "f", "e", "e", "d">>

\* values of API_URL: unset, blank, port numbers, a digit string that is
\* no number's toString, a URL (also padded), no scheme, no host
ApiUrlValues ==
    { <<>>, <<" ", " ">>, <<"3", "0", "0", "0">>, <<" ", "8", "0", "1", "0", " ">>,
      <<"0", "3", "0", "0", "0">>, UrlFeed, <<" ">> \o UrlFeed \o <<" ">>,
      <<"a", "p", "i", "/", "f", "e", "e", "d">>, <<"h", "t", "t", "p", ":", "/", "/">> }

PortValues == {<<>>, <<"3", "0", "0", "0">>, UrlFeed}

InitGate ==
    /\ tz = 0
    /\ tempDate = YMD(1, 5)
    /\ pc = "init"
    /\ ParseIdle
    /\ DashIdle
    /\ RouteIdle
    /\ ExtraIdle
    /\ envApiUrl \in ApiUrlValues
    /\ envPort \in PortValues
    /\ gPc = "idle"
    /\ gUrl = <<>>
    /\ gCalls = 0
    /\ gFetches = 0
    /\ gResponses = <<>>
    /\ gUpstream = <<>>
    /\ gThrown = 0

NextGate ==
    \/ GetStart
    \/ FetchRejects
    \/ FetchNotOk
    \/ FetchOk
    \/ JsonRejects
    \/ JsonOk

SpecGate == InitGate /\ [][NextGate]_vars

----------------------------------------------------------------------------
(* JSON values, JSON.parse and JSON.stringify on arrays, numbers and {}    *)

JVal(t, n, str, items) == [t |-> t, n |-> n, s |-> str, items |-> items]

JNull == JVal("null", 0, <<>>, <<>>)
JNum(n) == JVal("num", n, <<>>, <<>>)
JStr(str) == JVal("str", 0, str, <<>>)
JArr(items) == JVal("arr", 0, <<>>, items)
JObj == JVal("obj", 0, <<>>, <<>>)

ParseFail == [ok |-> FALSE, val |-> JNull, next |-> 0]

ParseOk(v, next) == [ok |-> TRUE, val |-> v, next |-> next]

\* the index after the run of digits that starts at i
RECURSIVE DigitsEnd(_, _)
DigitsEnd(s, i) == IF i <= Len(s) /\ IsDigit(s[i]) THEN DigitsEnd(s, i + 1) ELSE i

RECURSIVE ParseValue(_, _)
RECURSIVE ParseItems(_, _, _)

\* one JSON value of s from index i on
ParseValue(s, i) ==
    IF i > Len(s) THEN ParseFail
    ELSE IF IsDigit(s[i])
         THEN LET j == DigitsEnd(s, i)
              IN ParseOk(JNum(DigitsValue(SubSeq(s, i, j - 1), 0)), j)
    ELSE IF s[i] = "["
         THEN IF i + 1 <= Len(s) /\ s[i + 1] = "]" THEN ParseOk(JArr(<<>>), i + 2)
              ELSE ParseItems(s, i + 1, <<>>)
    ELSE IF s[i] = "{" /\ i + 1 <= Len(s) /\ s[i + 1] = "}" THEN ParseOk(JObj, i + 2)
    ELSE ParseFail

\* the elements of an array after its '[' and the elements acc
ParseItems(s, i, acc) ==
    LET r == ParseValue(s, i)
    IN IF ~r.ok \/ r.next > Len(s) THEN ParseFail
       ELSE IF s[r.next] = "," THEN ParseItems(s, r.next + 1, Append(acc, r.val))
       ELSE IF s[r.next] = "]" THEN ParseOk(JArr(Append(acc, r.val)), r.next + 1)
       ELSE ParseFail

\* JSON.parse(s): ok is FALSE when it throws
JSONParse(s) ==
    LET r == ParseValue(s, 1)
    IN IF r.ok /\ r.next = Len(s) + 1 THEN r ELSE ParseFail

RECURSIVE JSONStringify(_)
RECURSIVE JoinItems(_)

JoinItems(items) ==
    IF items = <<>> THEN <<>>
    ELSE IF Len(items) = 1 THEN JSONStringify(items[1])
    ELSE JSONStringify(items[1]) \o <<",">> \o JoinItems(Tail(items))

\* JSON.stringify(v)
JSONStringify(v) ==
    CASE v.t = "num" -> IntToString(v.n)
      [] v.t = "str" -> <<"\"">> \o v.s \o <<"\"">>
      [] v.t = "arr" -> <<"[">> \o JoinItems(v.items) \o <<"]">>
      [] v.t = "obj" -> <<"{", "}">>
      [] v.t = "null" -> <<"n", "u", "l", "l">>

\* String(v ?? '') for a value that is no array and no object
ToDisplayString(v) ==
    CASE v.t = "num" -> IntToString(v.n)
      [] v.t = "str" -> v.s
      [] v.t = "null" -> <<>>
      [] OTHER -> JSONStringify(v)

----------------------------------------------------------------------------
(* page.tsx:296-371  tryParseJSON, countTotalRows, flattenParamsToRows,    *)
(* rowNeedsExpansion                                                       *)

EndsWith(s, c) == s # <<>> /\ s[Len(s)] = c

\* page.tsx:297-309
tryParseJSON(value) ==
    IF value.t = "str"
    THEN LET trimmed == Trim(value.s)
         IN IF \/ StartsWith(trimmed, <<"[">>) /\ EndsWith(trimmed, "]")
               \/ StartsWith(trimmed, <<"{">>) /\ EndsWith(trimmed, "}")
            THEN (IF JSONParse(trimmed).ok THEN JSONParse(trimmed).val ELSE value)
            ELSE value
    ELSE value

\* page.tsx:318,335  Array.isArray(parsed) && parsed.length > 0 && parsed.every(isArray)
IsArrayOfArrays(parsed) ==
    /\ parsed.t = "arr"
    /\ Len(parsed.items) > 0
    /\ \A i \in 1..Len(parsed.items) : parsed.items[i].t = "arr"

\* page.tsx:314,330  Object.entries(params).filter(([key]) => key !== 'user')
RECURSIVE WithoutUser(_)
WithoutUser(entries) ==
    IF entries = <<>> THEN <<>>
    ELSE (IF Head(entries).key # "user" THEN <<Head(entries)>> ELSE <<>>)
         \o WithoutUser(Tail(entries))

\* countTotalRows that counts the raw value, without tryParseJSON
RECURSIVE CountEntriesRaw(_)
CountEntriesRaw(entries) ==
    IF entries = <<>> THEN 0
    ELSE (IF IsArrayOfArrays(Head(entries).value) THEN Len(Head(entries).value.items) ELSE 1)
         + CountEntriesRaw(Tail(entries))

\* page.tsx:315-323  the loop of countTotalRows
RECURSIVE CountEntries(_)
CountEntries(entries) ==
    IF entries = <<>> THEN 0
    ELSE LET parsed == tryParseJSON(Head(entries).value)
         IN (IF IsArrayOfArrays(parsed) THEN Len(parsed.items) ELSE 1)
            + CountEntries(Tail(entries))

countTotalRowsRaw(params) == CountEntriesRaw(WithoutUser(params))

\* page.tsx:312-325
countTotalRows(params) == CountEntries(WithoutUser(params))

Row(key, displayValue, isFirstOfKey) ==
    [key |-> key, displayValue |-> displayValue, isFirstOfKey |-> isFirstOfKey]

\* the rows of the inner arrays, every one of them labelled
InnerRowsAllFirst(key, items) ==
    [idx \in 1..Len(items) |-> Row(key, JSONStringify(items[idx]), TRUE)]

\* page.tsx:336-342  parsed.forEach((inner, idx) => rows.push(...))
InnerRows(key, items) ==
    [idx \in 1..Len(items) |-> Row(key, JSONStringify(items[idx]), idx = 1)]

\* page.tsx:332-350  the loop of flattenParamsToRows
RECURSIVE FlattenEntries(_)
FlattenEntries(entries) ==
    IF entries = <<>> THEN <<>>
    ELSE LET key == Head(entries).key
             parsed == tryParseJSON(Head(entries).value)
             rows == IF IsArrayOfArrays(parsed) THEN InnerRows(key, parsed.items)
                     ELSE IF parsed.t = "arr" THEN <<Row(key, JSONStringify(parsed), TRUE)>>
                     ELSE IF parsed.t = "obj" THEN <<Row(key, JSONStringify(parsed), TRUE)>>
                     ELSE <<Row(key, ToDisplayString(parsed), TRUE)>>
         IN rows \o FlattenEntries(Tail(entries))

\* page.tsx:328-352
flattenParamsToRows(params) == FlattenEntries(WithoutUser(params))

\* page.tsx:367-371  query_params is [present, entries]
rowNeedsExpansion(item) ==
    IF ~item.query_params.present THEN FALSE
    ELSE Len(flattenParamsToRows(item.query_params.entries)) > 1

----------------------------------------------------------------------------
(* The query_params of the feed *)

Chars12 == <<"[", "1", ",", "2", "]">>
Chars34 == <<"[", "3", ",", "4", "]">>
CharsNested == <<"[">> \o Chars12 \o <<",">> \o Chars34 \o <<"]">>

ParamValues ==
    { JArr(<<JArr(<<JNum(1), JNum(2)>>), JArr(<<JNum(3), JNum(4)>>)>>),
      JArr(<<>>),
      JArr(<<JNum(1), JNum(2)>>),
      JArr(<<JArr(<<JNum(1)>>), JNum(2)>>),
      JObj,
      JNum(5),
      JNull,
      JStr(<<"a">>),
      JStr(CharsNested),
      JStr(<<" ">> \o CharsNested \o <<" ">>),
      JStr(<<"[", "1", ",", "]">>),
      JStr(<<"[", "1", ",">>) }

ParamKeys == {"user", "ids", "q"}

ParamEntry(k, v) == [key |-> k, value |-> v]

MaxParams == 2

\* the entries of an object: each key once
ParamMaps ==
    {m \in UNION {[1..n -> {ParamEntry(k, v) : k \in ParamKeys, v \in ParamValues}] :
                    n \in 0..MaxParams} :
        \A i, j \in DOMAIN m : i # j => m[i].key # m[j].key}

QueryParams == {[present |-> FALSE, entries |-> <<>>]}
               \cup {[present |-> TRUE, entries |-> m] : m \in ParamMaps}

InitParams ==
    /\ tz = 0
    /\ tempDate = YMD(1, 5)
    /\ pc = "init"
    /\ ParseIdle
    /\ DashIdle
    /\ RouteIdle
    /\ GateIdle
    /\ ExtraIdle

\* a row is rendered: page.tsx:638-640
RenderParams ==
    \E qp \in QueryParams :
        /\ pc = "init"
        /\ qParams' = qp
        /\ qRows' = IF qp.present THEN flattenParamsToRows(qp.entries) ELSE <<>>
        /\ qCount' = IF qp.present THEN countTotalRows(qp.entries) ELSE 0
        /\ qNeeds' = rowNeedsExpansion([query_params |-> qp])
        /\ pc' = "flattened"
        /\ UNCHANGED <<tz, tempDate, parseVars, dashVars, routeVars, gateVars,
                       fetchVars, expandVars, formatVars>>

NextParams == RenderParams

SpecParams == InitParams /\ [][NextParams]_vars

----------------------------------------------------------------------------
(* page.tsx:18-45  formatToIST;  page.tsx:401-418  getTimeFromDate;        *)
(* page.tsx:256-294  formatDateTime                                        *)

\* the civil date of the day that is z days after 1970-01-01
CivilFromDays(z) ==
    LET z2 == z + 719468
        era == z2 \div 146097
        doe == z2 - era * 146097
        yoe == (doe - doe \div 1460 + doe \div 36524 - doe \div 146096) \div 365
        doy == doe - (365 * yoe + yoe \div 4 - yoe \div 100)
        mp == (5 * doy + 2) \div 153
        m == IF mp < 10 THEN mp + 3 ELSE mp - 9
    IN [y |-> yoe + era * 400 + (IF m <= 2 THEN 1 ELSE 0),
        m |-> m,
        d |-> doy - (153 * mp + 2) \div 5 + 1]

\* Asia/Kolkata is 5 h 30 min ahead of UTC, all year
KolkataOffsetMs == 19800000

\* formatToParts of an invalid date throws a RangeError
RangeError == <<"RangeError">>

\* page.tsx:18-45  the instant x as YYYY-MM-DD hh:mm:ss AM/PM in IST
formatToIST(x) ==
    IF ~IsFinite(x) THEN RangeError
    ELSE LET local == x.v + KolkataOffsetMs
             civil == CivilFromDays(local \div 86400000)
             rem == local % 86400000
             h == rem \div 3600000
             mi == (rem % 3600000) \div 60000
             sec == (rem % 60000) \div 1000
             hour == IF h % 12 = 0 THEN 12 ELSE h % 12
             dayPeriod == IF h < 12 THEN <<"A", "M">> ELSE <<"P", "M">>
         IN NatToString(civil.y) \o <<"-">> \o D2(civil.m) \o <<"-">> \o D2(civil.d)
            \o <<" ">> \o D2(hour) \o <<":">> \o D2(mi) \o <<":">> \o D2(sec)
            \o <<" ">> \o dayPeriod

From(s, i) == SubSeq(s, i, Len(s))

\* /Z|[+-]\d{2}:\d{2}$/ matches at p: the length matched, or 0
ZoneMatchLen(t, p) ==
    IF t[p] = "Z" THEN 1
    ELSE IF /\ p = Len(t) - 5
            /\ t[p] \in {"+", "-"}
            /\ MatchesPrefix(From(t, p + 1), ZonePattern)
         THEN 6
    ELSE 0

\* time.replace(/Z|[+-]\d{2}:\d{2}$/, '')
StripZone(t) ==
    IF \A p \in 1..Len(t) : ZoneMatchLen(t, p) = 0 THEN t
    ELSE LET p == CHOOSE p \in 1..Len(t) :
                      /\ ZoneMatchLen(t, p) > 0
                      /\ \A q \in 1..(p - 1) : ZoneMatchLen(t, q) = 0
         IN SubSeq(t, 1, p - 1) \o From(t, p + ZoneMatchLen(t, p))

\* time.replace(/\.\d{3}$/, '')
StripMillis(t) ==
    IF Len(t) >= 4 /\ MatchesPrefix(From(t, Len(t) - 3), MsPattern)
    THEN SubSeq(t, 1, Len(t) - 4)
    ELSE t

\* /T(\d{2}:\d{2}(?::\d{2})?(?:\.\d{3})?(?:Z|[+-]\d{2}:\d{2})?)/ matches at i
TimeMatchAt(s, i) == MatchesPrefix(From(s, i), TimePattern)

\* the group 1 of that match at i
TimeGroup(s, i) ==
    LET rest == From(s, i + 6)
        sec == IF MatchesPrefix(rest, SecPattern) THEN SubSeq(rest, 1, 3) ELSE <<>>
        rest2 == From(rest, Len(sec) + 1)
        ms == IF MatchesPrefix(rest2, MsPattern) THEN SubSeq(rest2, 1, 4) ELSE <<>>
        rest3 == From(rest2, Len(ms) + 1)
        zone == IF StartsWith(rest3, <<"Z">>) THEN <<"Z">>
                ELSE IF /\ Len(rest3) >= 6
                        /\ rest3[1] \in {"+", "-"}
                        /\ MatchesPrefix(From(rest3, 2), ZonePattern)
                     THEN SubSeq(rest3, 1, 6)
                ELSE <<>>
    IN SubSeq(s, i + 1, i + 5) \o sec \o ms \o zone

\* getTimeFromDate that returns the empty string when there is no time
getTimeFromDateEmpty(dateString) ==
    IF dateString = <<>> \/ \A i \in 1..Len(dateString) : ~TimeMatchAt(dateString, i)
    THEN <<>>
    ELSE LET i == CHOOSE i \in 1..Len(dateString) :
                      /\ TimeMatchAt(dateString, i)
                      /\ \A j \in 1..(i - 1) : ~TimeMatchAt(dateString, j)
         IN StripMillis(StripZone(TimeGroup(dateString, i)))

\* page.tsx:401-418
getTimeFromDate(dateString) ==
    IF dateString = <<>> THEN <<DASH>>
    ELSE IF \A i \in 1..Len(dateString) : ~TimeMatchAt(dateString, i) THEN <<DASH>>
    ELSE LET i == CHOOSE i \in 1..Len(dateString) :
                      /\ TimeMatchAt(dateString, i)
                      /\ \A j \in 1..(i - 1) : ~TimeMatchAt(dateString, j)
         IN StripMillis(StripZone(TimeGroup(dateString, i)))

\* page.tsx:256-294  item.date and item.time are <<>> when absent
formatDateTime(item) ==
    LET utcDate1 == DateParse(ReplaceFirst(item.date, " ", "T") \o <<"Z">>)
        isoDate == DateParse(item.date)
        normalizedDate == IF item.date # <<>> /\ Slice0(item.date, 10) # <<>>
                          THEN Slice0(item.date, 10)
                          ELSE tempDate
        time == IF item.time # <<>> THEN item.time ELSE getTimeFromDate(item.date)
        utcDate2 == DateParse(normalizedDate \o <<"T">> \o time \o <<"Z">>)
    IN IF item.date # <<>> /\ MatchesPrefix(item.date, DateTimePattern)
       THEN (IF ~IsNaN(utcDate1) THEN formatToIST(utcDate1) ELSE item.date)
       ELSE IF item.date # <<>> /\ Includes(item.date, "T") /\ ~IsNaN(isoDate)
       THEN formatToIST(isoDate)
       ELSE IF time = <<DASH>> THEN normalizedDate
       ELSE IF ~IsNaN(utcDate2) THEN formatToIST(utcDate2)
       ELSE normalizedDate \o <<" ">> \o time

IsoBadHour == YMD(1, 3) \o <<"T">> \o HMS(25, 0, 0)
IsoMillis == YMD(1, 4) \o <<"T">> \o HMS(1, 0, 0) \o <<".", "1", "2", "3", "Z">>
IsoBadMonthZulu == YMD(13, 3) \o <<"T">> \o HMS(6, 0, 0) \o <<"Z">>
IsoNoon == YMD(1, 4) \o <<"T">> \o HMS(6, 30, 0) \o <<"Z">>
LateEvening == YMD(1, 20) \o <<" ">> \o HMS(19, 0, 0)

FormatDates == DateStrs \cup {IsoBadHour, IsoMillis, IsoBadMonthZulu, IsoNoon, LateEvening}

FormatTimes == TimeStrs \cup {<<DASH>>}

InitFormat ==
    /\ tz \in TimeZones
    /\ tempDate = YMD(1, 5)
    /\ pc = "init"
    /\ ParseIdle
    /\ DashIdle
    /\ RouteIdle
    /\ GateIdle
    /\ ExtraIdle

\* the Date & Time cell of a row is rendered: page.tsx:672
CallFormatDateTime ==
    \E d \in FormatDates, t \in FormatTimes :
        /\ pc = "init"
        /\ fItem' = Item("alice", d, t)
        /\ fResult' = formatDateTime(Item("alice", d, t))
        /\ pc' = "formatted"
        /\ UNCHANGED <<tz, tempDate, parseVars, dashVars, routeVars, gateVars,
                       fetchVars, expandVars, paramVars>>

NextFormat == CallFormatDateTime

SpecFormat == InitFormat /\ [][NextFormat]_vars

----------------------------------------------------------------------------
(* page.tsx:354-364  toggleRowExpand, on a loaded page whose records carry *)
(* query_params                                                            *)

ParamItem(u, d, t, qp) == [user |-> u, date |-> d, time |-> t, query_params |-> qp]

NestedIds == JArr(<<JArr(<<JNum(1), JNum(2)>>), JArr(<<JNum(3), JNum(4)>>)>>)

ParamItems ==
    { ParamItem("alice", SpaceDateTime, <<>>,
                [present |-> TRUE, entries |-> <<ParamEntry("ids", NestedIds)>>]),
      ParamItem("bob", IsoZulu, <<>>,
                [present |-> TRUE, entries |-> <<ParamEntry("q", JNum(5))>>]),
      ParamItem("alice", BareDate, HM(10, 30),
                [present |-> FALSE, entries |-> <<>>]),
      ParamItem("bob", NoDate, <<>>,
                [present |-> TRUE,
                 entries |-> <<ParamEntry("ids", JStr(CharsNested)),
                               ParamEntry("q", JNum(5))>>]) }

MaxRows == 2

ParamFeeds == UNION {[1..n -> ParamItems] : n \in 1..MaxRows}

\* the page after a response with records has been loaded
InitExpand ==
    /\ tz \in TimeZones
    /\ tempDate = YMD(1, 5)
    /\ pc = "settled"
    /\ ParseIdle
    /\ RouteIdle
    /\ GateIdle
    /\ data \in ParamFeeds
    /\ loading = FALSE
    /\ error = "null"
    /\ selectedUsers = <<>>
    /\ sortConfig = InitialSortConfig
    /\ filteredData = ComputeFilteredData(data, selectedUsers, sortConfig)
    /\ fetches = 1
    /\ fBody = [kind |-> "array", value |-> data]
    /\ ExpandIdle
    /\ ParamIdle
    /\ FormatIdle

\* toggleRowExpand that keeps at most one row expanded
toggleRowExpandExclusive(rowIndex) ==
    /\ rowIndex \in 0..(Len(filteredData) - 1)
    /\ rowNeedsExpansion(filteredData[rowIndex + 1])
    /\ expandedRows' = IF rowIndex \in expandedRows THEN {} ELSE {rowIndex}
    /\ UNCHANGED <<tz, tempDate, pc, parseVars, dashVars, routeVars, gateVars,
                   fetchVars, paramVars, formatVars>>

\* page.tsx:354-364, by the button of page.tsx:646-660, which only a row that
\* needs expansion has
toggleRowExpand(rowIndex) ==
    /\ rowIndex \in 0..(Len(filteredData) - 1)
    /\ rowNeedsExpansion(filteredData[rowIndex + 1])
    /\ expandedRows' = IF rowIndex \in expandedRows
                       THEN expandedRows \ {rowIndex}
                       ELSE expandedRows \cup {rowIndex}
    /\ UNCHANGED <<tz, tempDate, pc, parseVars, dashVars, routeVars, gateVars,
                   fetchVars, paramVars, formatVars>>

ToggleSomeRow == \E rowIndex \in 0..(MaxRows - 1) : toggleRowExpand(rowIndex)

NextExpand ==
    \/ ToggleSomeRow
    \/ handleSort
    \/ toggleUser
    \/ selectAllUsers
    \/ clearAllUsers

SpecExpand == InitExpand /\ [][NextExpand]_vars

----------------------------------------------------------------------------
(* Claims about parseDateTime (SpecParse) *)

\* the six rules of parseDateTime, in the order of the text: guard, and the
\* string handed to Date.parse
RuleGuard(i, d, t, f) ==
    CASE i = 1 -> d # <<>> /\ Includes(d, " ") /\ MatchesPrefix(d, DateTimePattern)
      [] i = 2 -> d # <<>> /\ Includes(d, "T")
      [] i = 3 -> d # <<>> /\ t # <<>>
      [] i = 4 -> d # <<>> /\ MatchesPrefix(d, DatePattern)
      [] i = 5 -> t # <<>> /\ f # <<>>
      [] i = 6 -> d # <<>> /\ MatchesPrefix(d, DatePattern)

RuleString(i, d, t, f) ==
    CASE i = 1 -> ReplaceFirst(d, " ", "T")
      [] i = 2 -> d
      [] i = 3 -> Slice0(d, 10) \o <<"T">> \o t
      [] i = 4 -> Slice0(d, 10)
      [] i = 5 -> f \o <<"T">> \o t
      [] i = 6 -> Slice0(d, 10) \o <<"T">> \o HMS(0, 0, 0)

RuleSucceeds(i, d, t, f) == RuleGuard(i, d, t, f) /\ ~IsNaN(DateParse(RuleString(i, d, t, f)))

SucceedingRules(d, t, f) == {i \in 1..6 : RuleSucceeds(i, d, t, f)}

FirstRule(d, t, f) ==
    CHOOSE i \in SucceedingRules(d, t, f) : \A j \in SucceedingRules(d, t, f) : i <= j

\* C1: the result of parseDateTime is the parse of the first rule, in the
\* order 1..6, whose guard holds and whose parse is not NaN, and the
\* negative-infinity sentinel when there is none; a rule whose guard holds
\* and whose parse fails is passed over, and when rule 1 or 2 succeeds the
\* result is that of the date string alone, whatever timeStr and
\* fallbackDate are.
C1_FirstRuleWins ==
    pc = "parsed" =>
        /\ pResult = IF SucceedingRules(pDate, pTime, pFallback) = {}
                     THEN NEGATIVE_INFINITY
                     ELSE DateParse(RuleString(FirstRule(pDate, pTime, pFallback),
                                               pDate, pTime, pFallback))
        /\ ~IsNaN(pResult)
        /\ (RuleSucceeds(1, pDate, pTime, pFallback) \/ RuleSucceeds(2, pDate, pTime, pFallback))
              => pResult = DateParse(ReplaceFirst(pDate, " ", "T"))

\* C1 witness: rules 1, 3 and 4 have their guards hold and their parses
\* fail, and rule 5 returns the instant of the fallback date
C1_Witness ==
    /\ pc = "parsed"
    /\ pDate = BadMonthDateTime
    /\ RuleGuard(1, pDate, pTime, pFallback)
    /\ RuleGuard(3, pDate, pTime, pFallback)
    /\ RuleGuard(4, pDate, pTime, pFallback)
    /\ SucceedingRules(pDate, pTime, pFallback) # {}
    /\ FirstRule(pDate, pTime, pFallback) = 5
    /\ IsFinite(pResult)

----------------------------------------------------------------------------
(* Claims about the sort key and the displayed list (Spec) *)

SortKey(item) == getSortTimestamp(item, tempDate)

\* no rule of parseDateTime parses the record's date and time
Unparsable(item) == SucceedingRules(item.date, item.time, tempDate) = {}

\* the wall-clock reading of a record in local time, in milliseconds: the
\* date and time as written when they carry no zone (a bare date reads
\* 00:00:00 of its day), and the local reading of the instant when they do
NaturalDateTime(item) ==
    LET i == FirstRule(item.date, item.time, tempDate)
        str == RuleString(i, item.date, item.time, tempDate)
    IN IF Len(str) = 10 THEN DateParse(str).v ELSE DateParse(str).v + tz * 60000

\* C2: of two records that both parse, the one whose natural datetime is
\* earlier has a sort key less than or equal to the other's.
C2_SortKeyMonotonic ==
    \A i, j \in DOMAIN data :
        (/\ ~Unparsable(data[i])
         /\ ~Unparsable(data[j])
         /\ NaturalDateTime(data[i]) < NaturalDateTime(data[j]))
            => LessEq(SortKey(data[i]), SortKey(data[j]))

KeysOf(seq) == [i \in DOMAIN seq |-> SortKey(seq[i])]

UnparsableIn(seq) == [i \in DOMAIN seq |-> Unparsable(seq[i])]

\* C3: when every displayed record has a finite sort key, the displayed
\* list is in non-decreasing key order under 'asc' and in non-increasing
\* key order under 'desc'; three records loaded as [t2, t0, t1] with
\* t0 < t1 < t2 are displayed as [t0, t1, t2] under 'asc' and as
\* [t2, t1, t0] under 'desc'.
C3_SortedByKey ==
    LET shown == KeysOf(filteredData)
        loaded == KeysOf(data)
    IN (\A i \in DOMAIN shown : IsFinite(shown[i])) =>
        /\ \A i, j \in DOMAIN shown :
              i < j => IF sortConfig.direction = "asc"
                       THEN LessEq(shown[i], shown[j])
                       ELSE LessEq(shown[j], shown[i])
        /\ (/\ Len(data) = 3
            /\ \A i \in DOMAIN loaded : IsFinite(loaded[i])
            /\ selectedUsers = <<>>
            /\ Less(loaded[2], loaded[3])
            /\ Less(loaded[3], loaded[1]))
              => filteredData = IF sortConfig.direction = "asc"
                                THEN <<data[2], data[3], data[1]>>
                                ELSE <<data[1], data[3], data[2]>>

\* C3 witness: [t2, t0, t1] is loaded and displayed in descending order
C3_Witness ==
    LET loaded == KeysOf(data)
    IN /\ Len(data) = 3
       /\ \A i \in DOMAIN loaded : IsFinite(loaded[i])
       /\ selectedUsers = <<>>
       /\ Less(loaded[2], loaded[3])
       /\ Less(loaded[3], loaded[1])
       /\ sortConfig.direction = "desc"
       /\ filteredData = <<data[1], data[3], data[2]>>

\* C4 as stated: unparsable records come last under 'asc' and first under
\* 'desc'.
C4_UnparsableLastAscending ==
    LET bad == UnparsableIn(filteredData)
    IN \A i, j \in DOMAIN filteredData :
          (bad[i] /\ ~bad[j]) => IF sortConfig.direction = "asc" THEN j < i ELSE i < j

\* C4 amended: the displayed list is a block of the unparsable records
\* followed by the valid-dated ones under 'asc', and a block of the
\* valid-dated records followed by the unparsable ones under 'desc'.
C4_UnparsableFirstAscending ==
    LET bad == UnparsableIn(filteredData)
    IN \E n \in 0..Len(filteredData) :
          \A i \in DOMAIN filteredData :
              IF sortConfig.direction = "asc" THEN bad[i] <=> i <= n ELSE bad[i] <=> i > n

\* C4 witness: under 'asc' the list shows an unparsable record first and a
\* valid-dated one last
C4_Witness ==
    /\ sortConfig.direction = "asc"
    /\ Len(filteredData) >= 2
    /\ Unparsable(filteredData[1])
    /\ ~Unparsable(filteredData[Len(filteredData)])

Shown(item) == selectedUsers = <<>> \/ item.user \in Range(selectedUsers)

\* the subsequence of seq at the indices where flag holds
RECURSIVE Pick(_, _, _)
Pick(seq, flag, i) ==
    IF i > Len(seq) THEN <<>>
    ELSE (IF flag[i] THEN <<seq[i]>> ELSE <<>>) \o Pick(seq, flag, i + 1)

\* C5: a record that no rule parses has the negative-infinity sort key; in
\* the displayed list no valid-dated record precedes it under 'asc' and
\* none follows it under 'desc'; and the unparsable records keep, among
\* themselves, the order in which they were loaded.
C5_UnparsableSortsBelow ==
    LET bad == UnparsableIn(filteredData)
        badLoaded == UnparsableIn(data)
        badShown == [i \in DOMAIN data |-> badLoaded[i] /\ Shown(data[i])]
    IN /\ \A i \in DOMAIN data : badLoaded[i] => SortKey(data[i]) = NEGATIVE_INFINITY
       /\ \A i, j \in DOMAIN filteredData :
             (bad[i] /\ ~bad[j]) => IF sortConfig.direction = "asc" THEN i < j ELSE j < i
       /\ Pick(filteredData, bad, 1) = Pick(data, badShown, 1)

\* C5 witness: under 'desc' two different unparsable records are displayed
\* after a valid-dated one
C5_Witness ==
    /\ sortConfig.direction = "desc"
    /\ Len(filteredData) = 3
    /\ ~Unparsable(filteredData[1])
    /\ Unparsable(filteredData[2])
    /\ Unparsable(filteredData[3])
    /\ filteredData[2] # filteredData[3]

----------------------------------------------------------------------------
(* Claims about getAppFromEndpoint (SpecRoute) *)

\* the segments of a path: its maximal runs of characters other than '/'
SegmentStarts(s) == {i \in 1..Len(s) : s[i] # "/" /\ (i = 1 \/ s[i - 1] = "/")}

SegmentCount(s) == Cardinality(SegmentStarts(s))

SegmentAt(s, k) ==
    LET from == CHOOSE i \in SegmentStarts(s) :
                    Cardinality({j \in SegmentStarts(s) : j < i}) = k - 1
        to == CHOOSE j \in from..Len(s) :
                    /\ \A x \in from..j : s[x] # "/"
                    /\ (j = Len(s) \/ s[j + 1] = "/")
    IN SubSeq(s, from, to)

\* a segment wrapped in {}
IsPlaceholder(seg) == Len(seg) >= 2 /\ seg[1] = "{" /\ seg[Len(seg)] = "}"

SegmentHit(route, endpoint) ==
    /\ SegmentCount(route) = SegmentCount(endpoint)
    /\ \A k \in 1..SegmentCount(route) :
          IsPlaceholder(SegmentAt(route, k)) \/ SegmentAt(route, k) = SegmentAt(endpoint, k)

RawPrefix(route, endpoint) ==
    Len(route) <= Len(endpoint) /\ \A k \in 1..Len(route) : endpoint[k] = route[k]

ExactHits == {i \in DOMAIN routeToAppMap : routeToAppMap[i].route = rEndpoint}

SegmentHits == {i \in DOMAIN routeToAppMap : SegmentHit(routeToAppMap[i].route, rEndpoint)}

PrefixHits == {i \in DOMAIN routeToAppMap : RawPrefix(routeToAppMap[i].route, rEndpoint)}

Earliest(S) == CHOOSE i \in S : \A j \in S : i <= j

AppsAt(S) == {routeToAppMap[i].app : i \in S}

HasRoute(r) == \E i \in DOMAIN routeToAppMap : routeToAppMap[i].route = r

Resolved == pc = "resolved" /\ rEndpoint # <<>>

\* C6: an exact table hit decides the result; without one, a key matching
\* by segments decides it; a prefix key decides it only when the table holds
\* no exact and no segment match.  "/date_range/123" resolves to the
\* application of "/date_range/{date_range_id}" wherever the prefix key
\* "/date_range" sits in the table.
C6_StageOrder ==
    Resolved =>
        /\ ExactHits # {} => rApp \in AppsAt(ExactHits)
        /\ (ExactHits = {} /\ SegmentHits # {}) => rApp \in AppsAt(SegmentHits)
        /\ (ExactHits = {} /\ SegmentHits = {} /\ PrefixHits # {}) => rApp \in AppsAt(PrefixHits)
        /\ (rEndpoint = EndpointDateRange123 /\ HasRoute(RouteDateRangeId)) => rApp = "Calendar"

\* C6 witness: the prefix key "/date_range" is first in the table, the
\* pattern "/date_range/{date_range_id}" comes later and still decides
C6_Witness ==
    /\ Resolved
    /\ rEndpoint = EndpointDateRange123
    /\ Len(routeToAppMap) >= 2
    /\ routeToAppMap[1].route = RouteDateRange
    /\ HasRoute(RouteDateRangeId)
    /\ rApp = "Calendar"

\* C7: when no key equals the endpoint, the result is the application of
\* the earliest key that has as many segments as the endpoint and whose
\* segments are each a {placeholder} or equal to the endpoint's segment at
\* that position; when no key matches so, the result comes from no key but a
\* raw prefix of the endpoint.
C7_SegmentMatch ==
    (Resolved /\ ExactHits = {}) =>
        /\ SegmentHits # {} => rApp = routeToAppMap[Earliest(SegmentHits)].app
        /\ SegmentHits = {} => rApp \in AppsAt(PrefixHits) \cup {DASH}

\* C7 witness: two keys match "/es/ps/" by segments (empty segment ignored)
\* and the earlier one, a placeholder pattern, gives the result
C7_Witness ==
    /\ Resolved
    /\ rEndpoint = EndpointEsPsSlash
    /\ ExactHits = {}
    /\ Cardinality(SegmentHits) >= 2
    /\ routeToAppMap[Earliest(SegmentHits)].route = RouteOrgPs
    /\ rApp = "Portal"

\* C8: when no key matches exactly or by segments, the result is the
\* application of the earliest key that is a raw string prefix of the
\* endpoint: "/es/ps/extra" resolves as "/es/ps" when that is the earliest
\* prefix key, a key "/es" listed before "/es/ps" wins over it, and "/es"
\* matches "/estimate".
C8_PrefixMatch ==
    (Resolved /\ ExactHits = {} /\ SegmentHits = {}) =>
        /\ PrefixHits # {} => rApp = routeToAppMap[Earliest(PrefixHits)].app
        /\ (rEndpoint = EndpointEsPsExtra /\ HasRoute(RouteEsPs) /\ ~HasRoute(RouteEs))
              => rApp = "Estimation"
        /\ (rEndpoint = EndpointEstimate /\ HasRoute(RouteEs)) => rApp = "Search"

\* C8 witness: "/es" is listed before "/es/ps" and decides "/es/ps/extra"
C8_Witness ==
    /\ Resolved
    /\ rEndpoint = EndpointEsPsExtra
    /\ Len(routeToAppMap) >= 2
    /\ routeToAppMap[1].route = RouteEs
    /\ routeToAppMap[2].route = RouteEsPs
    /\ rApp = "Search"

----------------------------------------------------------------------------
(* Claims about the gateway GET handler (SpecGate) *)

Blank(s) == \A i \in 1..Len(s) : s[i] = " "

AllDigits(s) == s # <<>> /\ \A i \in 1..Len(s) : IsDigit(s[i])

\* the configured value: API_URL, or PORT when API_URL is unset
Configured == IF envApiUrl = <<>> THEN envPort ELSE envApiUrl

\* neither missing or blank, nor a bare number, nor a malformed URL
ConfigValid ==
    /\ ~Blank(Configured)
    /\ ~AllDigits(Trim(Configured))
    /\ ValidUrl(Trim(Configured))

\* C10: no invocation of GET throws, and each yields exactly one response:
\* 200 with the upstream body's output when the configuration is valid and
\* the upstream call succeeds, 500 with an error string when the
\* configuration is missing or blank, a bare port number or a malformed URL,
\* and when the upstream fails (network error, non-2xx, malformed JSON); an
\* upstream request is issued only under a valid configuration.
C10_OneResponse ==
    /\ gThrown = 0
    /\ Len(gResponses) = IF gPc = "idle" THEN gCalls ELSE gCalls - 1
    /\ \A i \in DOMAIN gResponses :
          \/ gResponses[i].status = 200 /\ gResponses[i].kind = "output"
          \/ gResponses[i].status = 500 /\ gResponses[i].kind = "error"
                                        /\ gResponses[i].value # ""
    /\ ~ConfigValid =>
          /\ gFetches = 0
          /\ \A i \in DOMAIN gResponses : gResponses[i].status = 500
    /\ ConfigValid =>
          /\ gFetches = gCalls
          /\ Len(gUpstream) = Len(gResponses)
          /\ \A i \in DOMAIN gResponses :
                IF gUpstream[i] \in Outputs
                THEN gResponses[i] = Respond(200, "output", gUpstream[i])
                ELSE gResponses[i].status = 500

\* C10 witness: two invocations under a valid configuration, the first met
\* by an upstream failure and answered 500, the second relayed with 200
C10_Witness ==
    /\ gPc = "idle"
    /\ gCalls = 2
    /\ Len(gResponses) = 2
    /\ Len(gUpstream) = 2
    /\ gUpstream[1] \notin Outputs
    /\ gResponses[1].status = 500
    /\ gResponses[2].status = 200

----------------------------------------------------------------------------
(* Claims about the query_params rows (SpecParams) *)

\* the key and the label flag of every row
Labels(rows) == [i \in DOMAIN rows |-> <<rows[i].key, rows[i].isFirstOfKey>>]

\* n rows of one key, the first of them labelled
KeyRows(key, n) == [i \in 1..n |-> <<key, i = 1>>]

\* the rows the rule "one row per key, one per inner array of an array of
\* arrays" gives, with the array test made on the value as stored (decode
\* FALSE) or on the value after tryParseJSON (decode TRUE)
RECURSIVE ExpectedLabels(_, _)
ExpectedLabels(entries, decode) ==
    IF entries = <<>> THEN <<>>
    ELSE LET e == Head(entries)
             v == IF decode THEN tryParseJSON(e.value) ELSE e.value
             n == IF IsArrayOfArrays(v) THEN Len(v.items) ELSE 1
         IN (IF e.key = "user" THEN <<>> ELSE KeyRows(e.key, n))
            \o ExpectedLabels(Tail(entries), decode)

NeedsIffManyRows == qNeeds <=> (qParams.present /\ Len(qRows) > 1)

\* C11 as stated: flattenParamsToRows drops user and emits, in key order, one
\* row per key, except that a value that is a non-empty array of arrays emits
\* one row per inner array, only the first labelled; rowNeedsExpansion is true
\* iff the record has query_params and flattening yields more than one row.
C11_RowsPerArrayValue ==
    pc = "flattened" =>
        /\ qParams.present => Labels(qRows) = ExpectedLabels(qParams.entries, FALSE)
        /\ NeedsIffManyRows

\* C11 amended: the same, with the array test made on the value after
\* tryParseJSON, so that a string holding JSON for a non-empty array of arrays
\* also emits one row per inner array.
C11_RowsPerDecodedValue ==
    pc = "flattened" =>
        /\ qParams.present => Labels(qRows) = ExpectedLabels(qParams.entries, TRUE)
        /\ NeedsIffManyRows

\* the example {"user": "a", "ids": [[1,2],[3,4]]}: two rows keyed ids, the
\* first labelled, the row needs expansion
C11_Witness ==
    /\ pc = "flattened"
    /\ qParams.present
    /\ Len(qParams.entries) = 2
    /\ qParams.entries[1] = ParamEntry("user", JStr(<<"a">>))
    /\ qParams.entries[2].key = "ids"
    /\ qParams.entries[2].value.t = "arr"
    /\ Labels(qRows) = <<(<<"ids", TRUE>>), (<<"ids", FALSE>>)>>
    /\ qNeeds

\* C17: countTotalRows(params) is the number of rows of
\* flattenParamsToRows(params), for every params.
C17_CountMatchesFlatten ==
    (pc = "flattened" /\ qParams.present) => qCount = Len(qRows)

\* a JSON-encoded array of arrays beside the user key: more rows than keys
C17_Witness ==
    /\ pc = "flattened"
    /\ qParams.present
    /\ \E i \in DOMAIN qParams.entries :
          /\ qParams.entries[i].value.t = "str"
          /\ IsArrayOfArrays(tryParseJSON(qParams.entries[i].value))
    /\ \E i \in DOMAIN qParams.entries : qParams.entries[i].key = "user"
    /\ qCount = 2
    /\ Len(qRows) = 2

----------------------------------------------------------------------------
(* Claims about parseDateTime on bare dates and on failure (SpecParse) *)

LocalMidnight == <<"T", "0", "0", ":", "0", "0", ":", "0", "0">>

\* a date string that is exactly YYYY-MM-DD and names a day of the calendar
IsBareDate(d) ==
    /\ Len(d) = 10
    /\ MatchesPrefix(d, DatePattern)
    /\ ~IsNaN(DateParse(d))

\* C12: for a bare date YYYY-MM-DD and no timeStr, parseDateTime returns local
\* midnight of that date, the instant of YYYY-MM-DDT00:00:00, in every zone.
C12_BareDateLocalMidnight ==
    (pc = "parsed" /\ IsBareDate(pDate) /\ pTime = <<>>) =>
        pResult = DateParse(pDate \o LocalMidnight)

\* C13: parseDateTime returns the negative-infinity sentinel when dateStr,
\* timeStr and fallbackDate are all absent; it always returns, and what it
\* returns is a finite instant or that sentinel, never NaN.
C13_SentinelOnlyFailure ==
    pc = "parsed" =>
        /\ (pDate = <<>> /\ pTime = <<>> /\ pFallback = <<>>) =>
               pResult = NEGATIVE_INFINITY
        /\ pResult.k \in {"num", "-inf"}

\* the call with nothing to parse has returned the sentinel
C13_Witness ==
    /\ pc = "parsed"
    /\ pDate = <<>>
    /\ pTime = <<>>
    /\ pFallback = <<>>
    /\ pResult = NEGATIVE_INFINITY

----------------------------------------------------------------------------
(* Claims about formatDateTime (SpecFormat) *)

\* the date has the full shape YYYY-MM-DD HH:MM:SS
FullShape(d) == d # <<>> /\ MatchesPrefix(d, DateTimePattern)

\* the date carries a clock time after a T
HasClock(d) == \E i \in 1..Len(d) : TimeMatchAt(d, i)

\* the record has no time of its own and none in its date
NoTime(item) ==
    \/ item.time = <<DASH>>
    \/ item.time = <<>> /\ ~HasClock(item.date)

DateFragment(item) == IF item.date = <<>> THEN tempDate ELSE Slice0(item.date, 10)

TimeFragment(item) == IF item.time # <<>> THEN item.time ELSE getTimeFromDate(item.date)

\* no string the function builds from the record denotes an instant
NoValidInstant(item) ==
    IF FullShape(item.date)
    THEN IsNaN(DateParse(ReplaceFirst(item.date, " ", "T") \o <<"Z">>))
    ELSE /\ Includes(item.date, "T") => IsNaN(DateParse(item.date))
         /\ \/ NoTime(item)
            \/ IsNaN(DateParse(DateFragment(item) \o <<"T">> \o TimeFragment(item)
                               \o <<"Z">>))

\* YYYY-MM-DD hh:mm:ss AM or PM
IsRendering(r) ==
    /\ Len(r) = 22
    /\ MatchesPrefix(r, DateTimePattern \o <<" ">>)
    /\ SubSeq(r, 21, 22) \in {<<"A", "M">>, <<"P", "M">>}

\* C14: formatDateTime returns a string for every record and never throws;
\* when nothing parses to a valid instant it returns the original date string
\* (full shape), the date prefix or fallback date (no time), or date, blank and
\* time (combination fails); otherwise a rendering of a valid instant.
C14_FormatTotal ==
    pc = "formatted" =>
        /\ fResult # RangeError
        /\ IF NoValidInstant(fItem)
           THEN IF FullShape(fItem.date) THEN fResult = fItem.date
                ELSE IF NoTime(fItem) THEN fResult = DateFragment(fItem)
                ELSE fResult = DateFragment(fItem) \o <<" ">> \o TimeFragment(fItem)
           ELSE IsRendering(fResult)

\* a bare date without any time has been shown as the date alone
C14_Witness ==
    /\ pc = "formatted"
    /\ fItem.date = BareDate
    /\ fItem.time = <<>>
    /\ NoValidInstant(fItem)
    /\ fResult = BareDate

----------------------------------------------------------------------------
(* Claims about the displayed list and the loaded records (Spec) *)

\* the number of occurrences of x in seq
Count(seq, x) == Cardinality({i \in DOMAIN seq : seq[i] = x})

\* the records the response body delivered, in the order it delivered them
Loaded ==
    IF fBody.kind = "array" THEN fBody.value
    ELSE IF fBody.kind = "object" THEN <<fBody.value>>
    ELSE <<>>

Selected(x) == selectedUsers = <<>> \/ x.user \in Range(selectedUsers)

\* C15: whatever toggleUser, selectAllUsers, clearAllUsers and handleSort have
\* done, filteredData holds each loaded record whose user is selected (every
\* record when nothing is selected) as often as data holds it and nothing
\* else, and data is still the loaded array, in its order.
C15_FilteredIsSelection ==
    /\ \A x \in FeedItems :
          Count(filteredData, x) = IF Selected(x) THEN Count(data, x) ELSE 0
    /\ \A i \in DOMAIN filteredData : filteredData[i] \in FeedItems
    /\ data = Loaded

\* a selection that hides a record and a sort that has reordered the rest
C15_Witness ==
    /\ pc = "settled"
    /\ Len(selectedUsers) = 1
    /\ Len(filteredData) = 2
    /\ Len(data) = 3
    /\ filteredData # FilterItems(data, selectedUsers)
    /\ sortConfig.direction = "asc"
    /\ data = Loaded

----------------------------------------------------------------------------
(* Claims about the fetch on page load (SpecFetch) *)

FetchSucceeded == fBody.kind # "none"

\* what holds once the request has settled
SettledState ==
    /\ ~loading
    /\ fetches = 1
    /\ error = "null" <=> FetchSucceeded
    /\ data = Loaded

\* C16: exactly one fetch is issued on page load and none after it; loading
\* eventually becomes false and stays false; once settled, error is null iff
\* the fetch succeeded, data is the returned array (a non-array body as a
\* one-element array) on success and the initial empty array on failure.
C16_FetchOnceAndSettle ==
    /\ [](fetches <= 1)
    /\ <>(fetches = 1)
    /\ <>[](~loading)
    /\ [](pc = "settled" => SettledState)
    /\ [][pc = "settled" => pc' = "settled" /\ fetches' = fetches]_vars

\* a body that is not an array has been loaded as a one-element array
C16_Witness ==
    /\ pc = "settled"
    /\ fBody.kind = "object"
    /\ data = <<fBody.value>>
    /\ error = "null"
    /\ ~loading
    /\ fetches = 1
    /\ sortConfig.direction = "asc"

----------------------------------------------------------------------------
(* Claims about row expansion (SpecExpand) *)

\* rowIndex flips, every other index keeps its state
Flips(rowIndex) ==
    /\ rowIndex \in expandedRows' <=> rowIndex \notin expandedRows
    /\ expandedRows' \ {rowIndex} = expandedRows \ {rowIndex}

\* C18: toggleRowExpand(i) adds i to expandedRows if absent, removes it if
\* present and changes no other index; a step that changes the sort, the
\* selection or the displayed list (handleSort, toggleUser, selectAllUsers,
\* clearAllUsers) leaves expandedRows unchanged, so a position stays expanded
\* or collapsed whichever record moves into it.
C18_ExpansionByPosition ==
    [][/\ \A rowIndex \in 0..(MaxRows - 1) : toggleRowExpand(rowIndex) => Flips(rowIndex)
       /\ (handleSort \/ toggleUser \/ selectAllUsers \/ clearAllUsers) =>
              expandedRows' = expandedRows
       /\ (sortConfig' # sortConfig \/ selectedUsers' # selectedUsers
             \/ filteredData' # filteredData) => expandedRows' = expandedRows
       /\ expandedRows' # expandedRows =>
              \E rowIndex \in 0..(MaxRows - 1) : Flips(rowIndex)]_vars

\* position 0 is expanded and now shows a record that has no expand button:
\* the expansion was made on another record and stayed with the position
C18_Witness ==
    /\ pc = "settled"
    /\ expandedRows = {0}
    /\ Len(filteredData) = 2
    /\ ~rowNeedsExpansion(filteredData[1])
    /\ rowNeedsExpansion(filteredData[2])
    /\ sortConfig.direction = "desc"

====
